---------------------------- MODULE Spec2Model ----------------------------
(***************************************************************************)
(* A model of voxmesh (src/voxmesh/main.cpp): the grid layout, the robust  *)
(* point-in-triangle test, the ray-marching sweep compute_sign and the     *)
(* boundary extraction triangle_mesh_dump.                                  *)
(*                                                                         *)
(* World coordinates are integers.  The voxel size is an even integer, so  *)
(* that a voxel centre, origin + (x + 0.5) * spacing, is an integer too.   *)
(* A height produced by barycentric interpolation is the exact rational    *)
(* <<n, d>> with d > 0.                                                     *)
(***************************************************************************)
EXTENDS Integers, Sequences, FiniteSets, TLC

VARIABLES
    lay,            \* Layout round trip: size, vx, idx, back, pc
    pit,            \* one call of point_in_triangle_2d: arguments and results
    tile,           \* a ray tested against the facets of a planar tiling
    args,           \* main: the command line arguments padding and resolution
    mesh,           \* GEO::Mesh M: the sequence of facets, each <<p1, p2, p3>>
    voxels,         \* VoxelGrid: m_origin, m_spacing, m_grid_size, m_data
    task,           \* compute_sign: the position of the task of each row y
    access,         \* compute_sign: per cell, the rows whose task touched it
    assert_failed,  \* compute_sign: geo_assert(z >= 0 && z < size[2]) fired
    dump            \* triangle_mesh_dump: idx, triangles, node_id, ...

vars == <<lay, pit, tile, args, mesh, voxels, task, access, assert_failed, dump>>

---------------------------------------------------------------------------
(* Bounds of the model.                                                    *)

MaxDim == 3          \* Layout: grid sizes 1..MaxDim along each axis

MaxCoord == 2        \* point_in_triangle_2d: coordinates 0..MaxCoord

TileK == 4           \* fan tilings: the side of the tiled square

TileN == 2           \* lattice tilings: TileN x 2 squares of side 2

MaxPadding == 1      \* sweep: the padding argument is 0..MaxPadding

MaxHalfSpacing == 2  \* sweep: the voxel size is 2, 4, .. 2 * MaxHalfSpacing

MaxNz == 3           \* column sweep: grids of 0..MaxNz layers

MaxCross == 4        \* column sweep: up to MaxCross crossings of the ray

MaxCells == 8        \* extraction: every occupancy of every grid of <= MaxCells voxels

---------------------------------------------------------------------------
(* C++ arithmetic.                                                         *)

Abs(a) == IF a < 0 THEN -a ELSE a

Max(a, b) == IF a > b THEN a ELSE b

Min(a, b) == IF a < b THEN a ELSE b

\* int / int: truncation towards zero.
CDiv(a, b) ==
    IF (a >= 0) = (b > 0) THEN Abs(a) \div Abs(b) ELSE -(Abs(a) \div Abs(b))

\* int % int: the sign of the dividend.
CMod(a, b) == a - b * CDiv(a, b)

\* std::ceil(n / d) for d > 0.
Ceil(n, d) == -((-n) \div d)

\* std::round(n / d) for d > 0: halfway cases away from zero.
Round(n, d) ==
    IF n >= 0 THEN (2 * n + d) \div (2 * d) ELSE -((2 * (-n) + d) \div (2 * d))

---------------------------------------------------------------------------
(* namespace Layout.                                                       *)

index3_from_index(idx, size) ==
    << CMod(idx, size[1]),
       CMod(CDiv(idx, size[1]), size[2]),
       CDiv(CDiv(idx, size[1]), size[2]) >>

\* A variant with size[0] and size[1] exchanged.
index_from_index3_swapped(vx, size) == (vx[3] * size[1] + vx[2]) * size[2] + vx[1]

\* A variant that leaves the row out of the index.
index_from_index3_norow(vx, size) == (vx[3] * size[2]) * size[1] + vx[1]

index_from_index3(vx, size) == (vx[3] * size[2] + vx[2]) * size[1] + vx[1]

\* The valid coordinates and the valid linear indices of a grid.
Index3s(size) == (0 .. size[1] - 1) \X (0 .. size[2] - 1) \X (0 .. size[3] - 1)

NumCells(size) == size[1] * size[2] * size[3]

---------------------------------------------------------------------------
(* Values of the variables a specification does not use.                   *)

NoLay == [pc |-> "off"]

NoPit == [pc |-> "off"]

NoTile == [pc |-> "off"]

NoGrid == [origin |-> <<0, 0, 0>>, spacing |-> 2, size |-> <<0, 0, 0>>, data |-> <<>>]

NoDump == [pc |-> "off"]

NoArgs == [padding |-> 0, resolution |-> 2]

OffLayout == lay = NoLay

OffPIT == pit = NoPit

OffTile == tile = NoTile

OffSweep ==
    /\ args = NoArgs /\ mesh = <<>> /\ voxels = NoGrid
    /\ task = <<>> /\ access = <<>> /\ assert_failed = FALSE

OffDump == dump = NoDump

sweepVars == <<args, mesh, voxels, task, access, assert_failed>>

---------------------------------------------------------------------------
(* SpecLayout: the two index conversions applied to every valid input.     *)

LayoutSizes == (1 .. MaxDim) \X (1 .. MaxDim) \X (1 .. MaxDim)

InitLayout ==
    /\ lay \in [pc : {"start"}, size : LayoutSizes, vx : {<<0, 0, 0>>},
                idx : {0}, back : {<<0, 0, 0>>}, backidx : {0}]
    /\ OffPIT /\ OffTile /\ OffSweep /\ OffDump

\* idx = index_from_index3(vx) for a valid vx.
LayoutEncode ==
    /\ lay.pc = "start"
    /\ \E vx \in Index3s(lay.size) :
          lay' = [lay EXCEPT !.pc = "encoded", !.vx = vx,
                             !.idx = index_from_index3(vx, lay.size)]

\* ... and back = index3_from_index(idx).
LayoutDecodeBack ==
    /\ lay.pc = "encoded"
    /\ lay' = [lay EXCEPT !.pc = "roundtrip3",
                          !.back = index3_from_index(lay.idx, lay.size)]

\* vx = index3_from_index(idx) for a valid idx.
LayoutDecode ==
    /\ lay.pc = "start"
    /\ \E idx \in 0 .. NumCells(lay.size) - 1 :
          lay' = [lay EXCEPT !.pc = "decoded", !.idx = idx,
                             !.vx = index3_from_index(idx, lay.size)]

\* ... and backidx = index_from_index3(vx).
LayoutEncodeBack ==
    /\ lay.pc = "decoded"
    /\ lay' = [lay EXCEPT !.pc = "roundtrip1",
                          !.backidx = index_from_index3(lay.vx, lay.size)]

NextLayout ==
    /\ \/ LayoutEncode
       \/ LayoutDecodeBack
       \/ LayoutDecode
       \/ LayoutEncodeBack
    /\ UNCHANGED <<pit, tile, sweepVars, dump>>

SpecLayout == InitLayout /\ [][NextLayout]_vars

\* C1: index_from_index3 and index3_from_index are mutual inverses over the
\* valid range: a valid (x,y,z) encodes to (z*ny+y)*nx+x, which lies in
\* [0, nx*ny*nz) and decodes back to (x,y,z); a valid idx decodes to a valid
\* (x,y,z), which encodes back to idx.
C1_IndexBijection ==
    /\ lay.pc \in {"encoded", "roundtrip3"} =>
          /\ lay.idx = (lay.vx[3] * lay.size[2] + lay.vx[2]) * lay.size[1] + lay.vx[1]
          /\ lay.idx \in 0 .. NumCells(lay.size) - 1
    /\ lay.pc = "roundtrip3" => lay.back = lay.vx
    /\ lay.pc \in {"decoded", "roundtrip1"} => lay.vx \in Index3s(lay.size)
    /\ lay.pc = "roundtrip1" => lay.backidx = lay.idx

\* A non-cubic grid whose last cell went through encode and decode.
C1_Witness ==
    /\ lay.pc = "roundtrip3"
    /\ lay.size = <<2, 3, 1>>
    /\ lay.vx = <<1, 2, 0>>

---------------------------------------------------------------------------
(* The exact rationals <<n, d>>, d > 0, standing for the doubles.          *)

Rat(n, d) == IF d < 0 THEN <<-n, -d>> ELSE <<n, d>>

RatLess(p, q) == p[1] * q[2] < q[1] * p[2]

---------------------------------------------------------------------------
(* orientation and point_in_triangle_2d.                                   *)

\* A variant whose last tie-break answers +1 on both sides.
orientation_tie(x1, y1, x2, y2) ==
    LET twice_signed_area == y1 * x2 - x1 * y2
    IN  [twice_signed_area |-> twice_signed_area,
         sign |-> IF twice_signed_area > 0 THEN 1
                  ELSE IF twice_signed_area < 0 THEN -1
                  ELSE IF y2 > y1 THEN 1
                  ELSE IF y2 < y1 THEN -1
                  ELSE IF x1 > x2 THEN 1
                  ELSE IF x1 < x2 THEN 1
                  ELSE 0]

\* A variant without the tie-breaking: the plain sign of the area.
orientation_plain(x1, y1, x2, y2) ==
    LET twice_signed_area == y1 * x2 - x1 * y2
    IN  [twice_signed_area |-> twice_signed_area,
         sign |-> IF twice_signed_area > 0 THEN 1
                  ELSE IF twice_signed_area < 0 THEN -1
                  ELSE 0]

\* The twice signed area of (0,0)-(x1,y1)-(x2,y2) and its SOS-determined sign.
orientation(x1, y1, x2, y2) ==
    LET twice_signed_area == y1 * x2 - x1 * y2
    IN  [twice_signed_area |-> twice_signed_area,
         sign |-> IF twice_signed_area > 0 THEN 1
                  ELSE IF twice_signed_area < 0 THEN -1
                  ELSE IF y2 > y1 THEN 1
                  ELSE IF y2 < y1 THEN -1
                  ELSE IF x1 > x2 THEN 1
                  ELSE IF x1 < x2 THEN -1
                  ELSE 0]

\* What a call returns: ret, and when ret the weights a, b, c (each over sum);
\* asserted when geo_assert(sum != 0) fired.  areas and signs are the values
\* of the orientation calls made before the return.
NoResult == [ret |-> FALSE, asserted |-> FALSE, signs |-> <<>>, areas |-> <<>>,
             sum |-> 0, a |-> <<0, 1>>, b |-> <<0, 1>>, c |-> <<0, 1>>]

point_in_triangle_2d(x0, y0, px1, py1, px2, py2, px3, py3) ==
    LET x1 == px1 - x0
        x2 == px2 - x0
        x3 == px3 - x0
        y1 == py1 - y0
        y2 == py2 - y0
        y3 == py3 - y0
        oa == orientation(x2, y2, x3, y3)
        ob == orientation(x3, y3, x1, y1)
        oc == orientation(x1, y1, x2, y2)
        a == oa.twice_signed_area
        b == ob.twice_signed_area
        c == oc.twice_signed_area
        sum == a + b + c
    IN  IF oa.sign = 0
        THEN [NoResult EXCEPT !.signs = <<oa.sign>>, !.areas = <<a>>]
        ELSE IF ob.sign # oa.sign
        THEN [NoResult EXCEPT !.signs = <<oa.sign, ob.sign>>, !.areas = <<a, b>>]
        ELSE IF oc.sign # oa.sign
        THEN [NoResult EXCEPT !.signs = <<oa.sign, ob.sign, oc.sign>>,
                              !.areas = <<a, b, c>>]
        ELSE IF sum = 0
        THEN [NoResult EXCEPT !.signs = <<oa.sign, ob.sign, oc.sign>>,
                              !.areas = <<a, b, c>>, !.asserted = TRUE]
        ELSE [ret |-> TRUE, asserted |-> FALSE,
              signs |-> <<oa.sign, ob.sign, oc.sign>>, areas |-> <<a, b, c>>,
              sum |-> sum, a |-> Rat(a, sum), b |-> Rat(b, sum), c |-> Rat(c, sum)]

---------------------------------------------------------------------------
(* SpecPIT: one call of point_in_triangle_2d on every query point and      *)
(* every triangle of a small lattice, the degenerate triangles included.   *)

Points == (0 .. MaxCoord) \X (0 .. MaxCoord)

InitPIT ==
    /\ pit \in [pc : {"call"}, q : Points, p1 : Points, p2 : Points, p3 : Points,
                res : {NoResult}]
    /\ OffLayout /\ OffTile /\ OffSweep /\ OffDump

PitCall ==
    /\ pit.pc = "call"
    /\ pit' = [pit EXCEPT !.pc = "returned",
                  !.res = point_in_triangle_2d(pit.q[1], pit.q[2], pit.p1[1], pit.p1[2],
                                               pit.p2[1], pit.p2[2], pit.p3[1], pit.p3[2])]
    /\ UNCHANGED <<lay, tile, sweepVars, dump>>

NextPIT == PitCall

SpecPIT == InitPIT /\ [][NextPIT]_vars

\* C9: geo_assert(sum != 0) never fires: whenever the three SOS signs are
\* equal and nonzero, a + b + c is nonzero, and the returned weights are all
\* >= 0 and sum to 1.
C9_SumNonzero ==
    pit.pc = "returned" =>
       /\ ~pit.res.asserted
       /\ ( /\ Len(pit.res.signs) = 3
            /\ pit.res.signs[1] # 0
            /\ pit.res.signs[2] = pit.res.signs[1]
            /\ pit.res.signs[3] = pit.res.signs[1] ) =>
              /\ pit.res.ret
              /\ pit.res.areas[1] + pit.res.areas[2] + pit.res.areas[3] # 0
              /\ pit.res.a[2] = Abs(pit.res.sum)
              /\ pit.res.b[2] = pit.res.a[2]
              /\ pit.res.c[2] = pit.res.a[2]
              /\ pit.res.a[1] >= 0
              /\ pit.res.b[1] >= 0
              /\ pit.res.c[1] >= 0
              /\ pit.res.a[1] + pit.res.b[1] + pit.res.c[1] = pit.res.a[2]

\* The signs agree though an area is exactly zero: the query point lies on an
\* edge, and the tie-break decided the sign.
C9_Witness ==
    /\ pit.pc = "returned"
    /\ pit.res.ret
    /\ \E i \in 1 .. 3 : pit.res.areas[i] = 0

---------------------------------------------------------------------------
(* SpecTile: a query point tested against every facet of a planar tiling,  *)
(* as a column's ray is against the candidate facets.                       *)

Orders == { <<1, 2, 3>>, <<1, 3, 2>>, <<2, 1, 3>>, <<2, 3, 1>>, <<3, 1, 2>>, <<3, 2, 1>> }

\* The square [0, TileK]^2 cut in four around an interior lattice point p.
FanTiling(p) ==
    << <<p, <<0, 0>>, <<TileK, 0>> >>,
       <<p, <<TileK, 0>>, <<TileK, TileK>> >>,
       <<p, <<TileK, TileK>>, <<0, TileK>> >>,
       <<p, <<0, TileK>>, <<0, 0>> >> >>

FanInterior == (1 .. TileK - 1) \X (1 .. TileK - 1)

\* TileN x 2 squares of side 2; diag[s] chooses the diagonal of square s.
LatticeSquares == 0 .. 2 * TileN - 1

LatticeTiling(diag) ==
    [t \in 1 .. 4 * TileN |->
        LET s == (t - 1) \div 2
            i == s % TileN
            j == s \div TileN
            A == <<2 * i, 2 * j>>
            B == <<2 * i + 2, 2 * j>>
            C == <<2 * i + 2, 2 * j + 2>>
            D == <<2 * i, 2 * j + 2>>
        IN  IF diag[s]
            THEN IF (t - 1) % 2 = 0 THEN <<A, B, C>> ELSE <<A, C, D>>
            ELSE IF (t - 1) % 2 = 0 THEN <<A, B, D>> ELSE <<B, C, D>>]

LatticeInterior == (1 .. 2 * TileN - 1) \X (1 .. 3)

InitTile ==
    /\ \/ \E p \in FanInterior, q \in FanInterior :
             tile = [pc |-> "scan", facets |-> FanTiling(p), q |-> q, f |-> 1, hits |-> 0]
       \/ \E diag \in [LatticeSquares -> BOOLEAN], q \in LatticeInterior :
             tile = [pc |-> "scan", facets |-> LatticeTiling(diag), q |-> q, f |-> 1,
                     hits |-> 0]
    /\ OffLayout /\ OffPIT /\ OffSweep /\ OffDump

\* Facet f, its vertices stored in any order, is tested against the point.
TileTest ==
    /\ tile.pc = "scan"
    /\ tile.f <= Len(tile.facets)
    /\ \E o \in Orders :
          LET t == tile.facets[tile.f]
              r == point_in_triangle_2d(tile.q[1], tile.q[2],
                                        t[o[1]][1], t[o[1]][2], t[o[2]][1], t[o[2]][2],
                                        t[o[3]][1], t[o[3]][2])
          IN  tile' = [tile EXCEPT !.f = tile.f + 1,
                          !.hits = IF r.ret THEN tile.hits + 1 ELSE tile.hits,
                          !.pc = IF r.asserted THEN "aborted" ELSE "scan"]
    /\ UNCHANGED <<lay, pit, sweepVars, dump>>

TileDone ==
    /\ tile.pc = "scan"
    /\ tile.f > Len(tile.facets)
    /\ tile' = [tile EXCEPT !.pc = "done"]
    /\ UNCHANGED <<lay, pit, sweepVars, dump>>

NextTile == TileTest \/ TileDone

SpecTile == InitTile /\ [][NextTile]_vars

\* C6: the tie-breaking neither misses nor double-counts a crossing: a point
\* in the interior of a region tiled by non-degenerate triangles, on a shared
\* edge or a shared vertex included, is in exactly one of the triangles.
C6_ExactlyOne ==
    /\ tile.pc # "aborted"
    /\ tile.pc = "done" => tile.hits = 1

\* The query point is a vertex shared by several facets of the tiling.
C6_Witness ==
    /\ tile.pc = "done"
    /\ Cardinality({f \in 1 .. Len(tile.facets) :
                       \E i \in 1 .. 3 : tile.facets[f][i] = tile.q}) >= 4

---------------------------------------------------------------------------
(* GEO::get_bbox and class VoxelGrid.                                      *)

SetMin(S) == CHOOSE m \in S : \A e \in S : m <= e

SetMax(S) == CHOOSE m \in S : \A e \in S : m >= e

\* The bounding box of the vertices of M.
get_bbox(M) ==
    LET V == { M[f][i] : f \in 1 .. Len(M), i \in 1 .. 3 }
    IN  [min_corner |-> << SetMin({v[1] : v \in V}), SetMin({v[2] : v \in V}),
                           SetMin({v[3] : v \in V}) >>,
         max_corner |-> << SetMax({v[1] : v \in V}), SetMax({v[2] : v \in V}),
                           SetMax({v[3] : v \in V}) >>]

\* A constructor that forgets to move the origin out by the padding.
VoxelGrid_unshifted(origin, extent, spacing, padding) ==
    LET size == << Ceil(extent[1], spacing) + 2 * padding,
                   Ceil(extent[2], spacing) + 2 * padding,
                   Ceil(extent[3], spacing) + 2 * padding >>
    IN  [origin |-> origin, spacing |-> spacing, size |-> size,
         data |-> [i \in 0 .. NumCells(size) - 1 |-> 0]]

\* VoxelGrid<T>::VoxelGrid.
VoxelGrid(origin, extent, spacing, padding) ==
    LET size == << Ceil(extent[1], spacing) + 2 * padding,
                   Ceil(extent[2], spacing) + 2 * padding,
                   Ceil(extent[3], spacing) + 2 * padding >>
    IN  [origin |-> << origin[1] - padding * spacing, origin[2] - padding * spacing,
                       origin[3] - padding * spacing >>,
         spacing |-> spacing, size |-> size,
         data |-> [i \in 0 .. NumCells(size) - 1 |-> 0]]

\* (x + 0.5) * m_spacing + m_origin; the spacing is even.
voxel_center(g, x, y, z) ==
    << ((2 * x + 1) * g.spacing) \div 2 + g.origin[1],
       ((2 * y + 1) * g.spacing) \div 2 + g.origin[2],
       ((2 * z + 1) * g.spacing) \div 2 + g.origin[3] >>

---------------------------------------------------------------------------
(* intersect_ray_z and the pieces of compute_sign.                         *)

\* hit, and when hit the height z = u*p1[2] + v*p2[2] + w*p3[2].
intersect_ray_z(F, q) ==
    LET r == point_in_triangle_2d(q[1], q[2], F[1][1], F[1][2], F[2][1], F[2][2],
                                  F[3][1], F[3][2])
    IN  [hit |-> r.ret, asserted |-> r.asserted,
         z |-> IF r.ret
               THEN << r.a[1] * F[1][3] + r.b[1] * F[2][3] + r.c[1] * F[3][3], r.a[2] >>
               ELSE <<0, 1>>]

\* The query box of a column: its centre in x and y, the bounding box of the
\* mesh widened by one spacing in z.
ColumnBox(center) ==
    LET bb == get_bbox(mesh)
    IN  [xyz_min |-> << center[1], center[2], bb.min_corner[3] - voxels.spacing >>,
         xyz_max |-> << center[1], center[2], bb.max_corner[3] + voxels.spacing >>]

\* compute_bbox_facet_bbox_intersections calls the action on the facets whose
\* bounding box meets the query box.
BoxMeetsFacet(box, F) ==
    \A c \in 1 .. 3 :
        /\ Min(F[1][c], Min(F[2][c], F[3][c])) <= box.xyz_max[c]
        /\ box.xyz_min[c] <= Max(F[1][c], Max(F[2][c], F[3][c]))

\* What stands in inter for a call of intersect_ray_z that stopped on the
\* assertion of point_in_triangle_2d.
Asserted == <<0, 0>>

\* inter, as the action pushed the heights: facet after facet from f on.
RECURSIVE InterFrom(_, _, _)
InterFrom(f, center, box) ==
    IF f > Len(mesh) THEN <<>>
    ELSE IF ~BoxMeetsFacet(box, mesh[f]) THEN InterFrom(f + 1, center, box)
    ELSE LET r == intersect_ray_z(mesh[f], center)
         IN  IF r.asserted THEN <<Asserted>>
             ELSE IF r.hit THEN <<r.z>> \o InterFrom(f + 1, center, box)
             ELSE InterFrom(f + 1, center, box)

\* The crossings of the ray through center, unsorted.
Inter(center) == InterFrom(1, center, ColumnBox(center))

\* std::sort(inter.begin(), inter.end()).
RECURSIVE InsertSorted(_, _)
InsertSorted(z, sorted) ==
    IF sorted = <<>> THEN <<z>>
    ELSE IF RatLess(z, Head(sorted)) THEN <<z>> \o sorted
    ELSE <<Head(sorted)>> \o InsertSorted(z, Tail(sorted))

RECURSIVE std_sort(_)
std_sort(inter) ==
    IF inter = <<>> THEN <<>> ELSE InsertSorted(Head(inter), std_sort(Tail(inter)))

\* int(std::round((inter[k] - origin[2]) / spacing)).
RoundIndex(h, origin_z, spacing) == Round(h[1] - origin_z * h[2], h[2] * spacing)

\* A clamp that forgets the upper end.
ClampIndex_lower(z, nz) == Max(0, z)

\* std::max(0, std::min(z, size[2])).
ClampIndex(z, nz) == Max(0, Min(z, nz))

\* T(1) - voxels.at(idx), T = unsigned char.
Flip(v) == (1 - v) % 256

\* A pair loop that advances by one crossing.
NextPair_one(k) == k + 1

\* k += 2.
NextPair(k) == k + 2

\* What a task holds between two accesses to the grid: the column x, its
\* crossings inter, the pair k (inter[k-1], inter[k] in the source's counting
\* from 0 are inter[k], inter[k+1] here), the layer z, the end z2 of the span,
\* and in tmp the value read at idx.
IdleTask == [pc |-> "idle", x |-> 0, inter |-> <<>>, k |-> 1, z |-> 0, z2 |-> 0,
             idx |-> 0, tmp |-> 0]

\* A task runs its own code up to its next access to the grid: the flip
\* loop, then the pair loop, then the next columns of the row.
RECURSIVE ColumnLoop(_, _), PairLoop(_, _, _, _), FlipLoop(_, _, _, _, _, _)
FlipLoop(y, x, inter, k, z, z2) ==
    IF z < z2
    THEN [IdleTask EXCEPT !.pc = "read", !.x = x, !.inter = inter, !.k = k,
                          !.z = z, !.z2 = z2]
    ELSE PairLoop(y, x, inter, NextPair(k))

PairLoop(y, x, inter, k) ==
    IF k < Len(inter)
    THEN LET z1 == ClampIndex(RoundIndex(inter[k], voxels.origin[3], voxels.spacing),
                              voxels.size[3])
             z2 == ClampIndex(RoundIndex(inter[k + 1], voxels.origin[3], voxels.spacing),
                              voxels.size[3])
         IN  FlipLoop(y, x, inter, k, z1, z2)
    ELSE ColumnLoop(y, x + 1)

ColumnLoop(y, x) ==
    IF x < voxels.size[1]
    THEN LET inter == Inter(voxel_center(voxels, x, y, 0))
         IN  IF \E i \in 1 .. Len(inter) : inter[i] = Asserted
             THEN [IdleTask EXCEPT !.pc = "aborted", !.x = x]
             ELSE PairLoop(y, x, std_sort(inter), 1)
    ELSE [IdleTask EXCEPT !.pc = "done", !.x = x]

---------------------------------------------------------------------------
(* compute_sign: one task per row y of GEO::parallel_for, interleaved at   *)
(* the accesses to the grid.                                                *)

\* The task of row y starts and runs to its first access to the grid.
RowStart(y) ==
    /\ task[y].pc = "idle"
    /\ task' = [task EXCEPT ![y] = ColumnLoop(y, 0)]
    /\ UNCHANGED <<args, mesh, voxels, access, assert_failed>>

\* geo_assert(z >= 0 && z < size[2]), idx = index_from_index3(x, y, z) and
\* the read of voxels.at(idx).
RowRead(y) ==
    /\ task[y].pc = "read"
    /\ LET t == task[y]
           idx == index_from_index3(<<t.x, y, t.z>>, voxels.size)
       IN  IF ~(t.z >= 0 /\ t.z < voxels.size[3])
           THEN /\ assert_failed' = TRUE
                /\ task' = [task EXCEPT ![y].pc = "aborted"]
                /\ UNCHANGED access
           ELSE IF idx \notin DOMAIN voxels.data
           THEN /\ task' = [task EXCEPT ![y].pc = "out_of_buffer", ![y].idx = idx]
                /\ UNCHANGED <<access, assert_failed>>
           ELSE /\ task' = [task EXCEPT ![y].pc = "write", ![y].idx = idx,
                                        ![y].tmp = voxels.data[idx]]
                /\ access' = [access EXCEPT ![idx] = @ \cup {y}]
                /\ UNCHANGED assert_failed
    /\ UNCHANGED <<args, mesh, voxels>>

\* The write voxels.at(idx) = T(1) - (the value read), then on to the next
\* access.
RowWrite(y) ==
    /\ task[y].pc = "write"
    /\ LET t == task[y]
       IN  /\ voxels' = [voxels EXCEPT !.data[t.idx] = Flip(t.tmp)]
           /\ access' = [access EXCEPT ![t.idx] = @ \cup {y}]
           /\ task' = [task EXCEPT ![y] = FlipLoop(y, t.x, t.inter, t.k, t.z + 1, t.z2)]
    /\ UNCHANGED <<args, mesh, assert_failed>>

NextSweep ==
    /\ \E y \in DOMAIN task : RowStart(y) \/ RowRead(y) \/ RowWrite(y)
    /\ UNCHANGED <<lay, pit, tile, dump>>

SweepJoined == \A y \in DOMAIN task : task[y].pc = "done"

---------------------------------------------------------------------------
(* The surfaces of the sweep.                                              *)

\* A tetrahedron: a floor, two vertical walls and a slanted face.
Tetra ==
    << << <<0, 0, 0>>, <<0, 4, 0>>, <<4, 0, 0>> >>,
       << <<0, 0, 0>>, <<4, 0, 0>>, <<0, 0, 4>> >>,
       << <<0, 0, 0>>, <<0, 0, 4>>, <<0, 4, 0>> >>,
       << <<4, 0, 0>>, <<0, 4, 0>>, <<0, 0, 4>> >> >>

\* The box [0,4] x [0,2] x [0,3], its top listed before its floor.
BoxMesh ==
    << << <<0, 0, 3>>, <<4, 0, 3>>, <<4, 2, 3>> >>,
       << <<0, 0, 3>>, <<4, 2, 3>>, <<0, 2, 3>> >>,
       << <<0, 0, 0>>, <<4, 2, 0>>, <<4, 0, 0>> >>,
       << <<0, 0, 0>>, <<0, 2, 0>>, <<4, 2, 0>> >>,
       << <<0, 0, 0>>, <<4, 0, 0>>, <<4, 0, 3>> >>,
       << <<0, 0, 0>>, <<4, 0, 3>>, <<0, 0, 3>> >>,
       << <<0, 2, 0>>, <<4, 2, 3>>, <<4, 2, 0>> >>,
       << <<0, 2, 0>>, <<0, 2, 3>>, <<4, 2, 3>> >>,
       << <<0, 0, 0>>, <<0, 0, 3>>, <<0, 2, 3>> >>,
       << <<0, 0, 0>>, <<0, 2, 3>>, <<0, 2, 0>> >>,
       << <<4, 0, 0>>, <<4, 2, 0>>, <<4, 2, 3>> >>,
       << <<4, 0, 0>>, <<4, 2, 3>>, <<4, 0, 3>> >> >>

\* The square [0,4]^2 at height h, cut along one diagonal or the other.
SheetA(h) ==
    << << <<0, 0, h>>, <<4, 0, h>>, <<4, 4, h>> >>,
       << <<0, 0, h>>, <<4, 4, h>>, <<0, 4, h>> >> >>

SheetB(h) ==
    << << <<0, 0, h>>, <<4, 0, h>>, <<0, 4, h>> >>,
       << <<4, 0, h>>, <<4, 4, h>>, <<0, 4, h>> >> >>

\* Two slabs, [0,1] and [3,4] in z: four crossings per column, out of order.
Slabs == SheetA(3) \o SheetB(0) \o SheetB(4) \o SheetA(1)

\* A floor under the slanted roof z = 1 + x/4 + y/2.
Wedge ==
    << << <<0, 0, 1>>, <<4, 0, 2>>, <<4, 4, 4>> >>,
       << <<0, 0, 1>>, <<4, 4, 4>>, <<0, 4, 3>> >> >> \o SheetB(0)

Meshes == {Tetra, BoxMesh, Slabs, Wedge}

---------------------------------------------------------------------------
(* SpecSweep: main builds the grid from the bounding box of the surface    *)
(* and runs compute_sign.                                                   *)

InitSweep ==
    /\ mesh \in Meshes
    /\ args \in [padding : 0 .. MaxPadding,
                 resolution : {2 * h : h \in 1 .. MaxHalfSpacing}]
    /\ voxels = LET bb == get_bbox(mesh)
                    extent == << bb.max_corner[1] - bb.min_corner[1],
                                 bb.max_corner[2] - bb.min_corner[2],
                                 bb.max_corner[3] - bb.min_corner[3] >>
                IN  VoxelGrid(bb.min_corner, extent, args.resolution, args.padding)
    /\ task = [y \in 0 .. voxels.size[2] - 1 |-> IdleTask]
    /\ access = [i \in DOMAIN voxels.data |-> {}]
    /\ assert_failed = FALSE
    /\ OffLayout /\ OffPIT /\ OffTile /\ OffDump

SpecSweep == InitSweep /\ [][NextSweep]_vars

\* The grid compute_sign leaves when the rows run one after the other.
RECURSIVE SeqFlipLoop(_, _, _, _, _)
SeqFlipLoop(data, x, y, z, z2) ==
    IF z < z2
    THEN LET idx == index_from_index3(<<x, y, z>>, voxels.size)
         IN  SeqFlipLoop([data EXCEPT ![idx] = Flip(@)], x, y, z + 1, z2)
    ELSE data

RECURSIVE SeqPairLoop(_, _, _, _, _)
SeqPairLoop(data, x, y, inter, k) ==
    IF k < Len(inter)
    THEN LET z1 == ClampIndex(RoundIndex(inter[k], voxels.origin[3], voxels.spacing),
                              voxels.size[3])
             z2 == ClampIndex(RoundIndex(inter[k + 1], voxels.origin[3], voxels.spacing),
                              voxels.size[3])
         IN  SeqPairLoop(SeqFlipLoop(data, x, y, z1, z2), x, y, inter, k + 2)
    ELSE data

RECURSIVE SeqColumnLoop(_, _, _)
SeqColumnLoop(data, x, y) ==
    IF x < voxels.size[1]
    THEN SeqColumnLoop(
             SeqPairLoop(data, x, y,
                         std_sort(Inter(voxel_center(voxels, x, y, 0))), 1),
             x + 1, y)
    ELSE data

RECURSIVE SeqRowLoop(_, _)
SeqRowLoop(data, y) ==
    IF y < voxels.size[2] THEN SeqRowLoop(SeqColumnLoop(data, 0, y), y + 1) ELSE data

SequentialSweep == SeqRowLoop([i \in DOMAIN voxels.data |-> 0], 0)

\* C2: the tasks of distinct rows access disjoint cells: the task of row y
\* reads and writes only cells whose index decodes to y, no cell is accessed
\* by two tasks, and for every interleaving the grid after the join is the
\* grid of the sequential run.
C2_RowsDisjoint ==
    /\ \A idx \in DOMAIN access :
          /\ \A y \in access[idx] : index3_from_index(idx, voxels.size)[2] = y
          /\ Cardinality(access[idx]) <= 1
    /\ \A y \in DOMAIN task : task[y].pc \notin {"aborted", "out_of_buffer"}
    /\ SweepJoined => voxels.data = SequentialSweep

\* Two tasks are each between the read and the write of a flip.
C2_Witness ==
    \E y1, y2 \in DOMAIN task :
        /\ y1 # y2
        /\ task[y1].pc = "write"
        /\ task[y2].pc = "write"

\* The voxels of the padding border.
InBorder(vx) ==
    \E c \in 1 .. 3 : vx[c] < args.padding \/ vx[c] >= voxels.size[c] - args.padding

\* C3: no padding leak: in a grid built by the constructor from the bounding
\* box of the surface, every voxel with a coordinate < padding or
\* >= size - padding is 0 during and after compute_sign.
C3_NoPaddingLeak ==
    \A vx \in Index3s(voxels.size) :
        InBorder(vx) => voxels.data[(vx[3] * voxels.size[2] + vx[2]) * voxels.size[1] + vx[1]] = 0

\* A padded grid after the join, with a solid voxel inside.
C3_Witness ==
    /\ SweepJoined
    /\ args.padding >= 1
    /\ \E i \in DOMAIN voxels.data : voxels.data[i] = 1

---------------------------------------------------------------------------
(* SpecColumn: compute_sign on a 2 x 2 x nz grid of any height and origin, *)
(* one column of which, (0,0) or (1,1), is crossed by horizontal facets at *)
(* any heights.                                                             *)

\* A horizontal facet at height h around the point (cx, cy).
Sheet(cx, cy, h) == << <<cx - 1, cy - 1, h>>, <<cx + 2, cy - 1, h>>, <<cx - 1, cy + 2, h>> >>

\* A facet beside the grid, which no ray crosses.
AsideFacet == << <<-3, -3, 0>>, <<-2, -3, 0>>, <<-3, -2, 0>> >>

\* The crossing heights of the column, in the order of the facets: descending.
HeightLists(nz) ==
    { hs \in UNION { [1 .. n -> -1 .. 2 * nz + 1] : n \in 0 .. MaxCross } :
         \A i \in 1 .. Len(hs) - 1 : hs[i] >= hs[i + 1] }

InitColumn ==
    /\ \E nz \in 0 .. MaxNz, oz \in {0, 1}, cx \in {0, 1} :
         \E hs \in HeightLists(nz), cy \in {cx} :
            /\ voxels = [origin |-> <<0, 0, oz>>, spacing |-> 2, size |-> <<2, 2, nz>>,
                         data |-> [i \in 0 .. 4 * nz - 1 |-> 0]]
            /\ mesh = <<AsideFacet>> \o
                      [i \in 1 .. Len(hs) |-> Sheet(2 * cx + 1, 2 * cy + 1, hs[i])]
    /\ args = NoArgs
    /\ task = [y \in 0 .. voxels.size[2] - 1 |-> IdleTask]
    /\ access = [i \in DOMAIN voxels.data |-> {}]
    /\ assert_failed = FALSE
    /\ OffLayout /\ OffPIT /\ OffTile /\ OffDump

SpecColumn == InitColumn /\ [][NextSweep]_vars

\* The sorted crossings of column (x, y) and the span of its j-th pair.
Crossings(x, y) == std_sort(Inter(voxel_center(voxels, x, y, 0)))

SpanLow(cr, j) ==
    ClampIndex(RoundIndex(cr[2 * j - 1], voxels.origin[3], voxels.spacing), voxels.size[3])

SpanHigh(cr, j) ==
    ClampIndex(RoundIndex(cr[2 * j], voxels.origin[3], voxels.spacing), voxels.size[3])

\* C7: flip pairing: a column of an initially empty grid with 2k or 2k+1
\* sorted crossings ends with exactly the k spans [z1_j, z2_j) of its
\* consecutive pairs solid (none for an empty list); the spans do not
\* overlap, and flipping a voxel twice restores it.
C7_FlipPairing ==
    /\ SweepJoined =>
          \A x \in 0 .. voxels.size[1] - 1, y \in 0 .. voxels.size[2] - 1 :
             LET cr == Crossings(x, y)
                 k == Len(cr) \div 2
             IN  /\ \A z \in 0 .. voxels.size[3] - 1 :
                       voxels.data[(z * voxels.size[2] + y) * voxels.size[1] + x] =
                          IF \E j \in 1 .. k : SpanLow(cr, j) <= z /\ z < SpanHigh(cr, j)
                          THEN 1 ELSE 0
                 /\ \A j \in 1 .. k : SpanLow(cr, j) <= SpanHigh(cr, j)
                 /\ \A j \in 1 .. k - 1 : SpanHigh(cr, j) <= SpanLow(cr, j + 1)
    /\ \A i \in DOMAIN voxels.data : Flip(Flip(voxels.data[i])) = voxels.data[i]

\* A column with two pairs and an unpaired fifth crossing or exactly four,
\* whose two spans are solid with an empty voxel between them.
C7_Witness ==
    /\ SweepJoined
    /\ \E x \in 0 .. 1, y \in 0 .. 1 :
          LET cr == Crossings(x, y)
          IN  /\ Len(cr) >= 4
              /\ SpanLow(cr, 1) < SpanHigh(cr, 1)
              /\ SpanHigh(cr, 1) < SpanLow(cr, 2)
              /\ SpanLow(cr, 2) < SpanHigh(cr, 2)

\* C8: the assertion of the flip loop never fires: after rounding and
\* clamping, every z the loop visits is in [0, nz) and the index read and
\* written is inside the buffer.
C8_AssertHolds ==
    /\ ~assert_failed
    /\ \A y \in DOMAIN task :
          /\ task[y].pc \notin {"aborted", "out_of_buffer"}
          /\ task[y].pc \in {"read", "write"} =>
                /\ 0 <= task[y].z /\ task[y].z < voxels.size[3]
                /\ index_from_index3(<<task[y].x, y, task[y].z>>, voxels.size)
                      \in 0 .. NumCells(voxels.size) - 1
          /\ task[y].pc = "write" => task[y].idx \in 0 .. NumCells(voxels.size) - 1

\* The loop visits the top layer of a span whose upper crossing lies above
\* the grid: the clamp cut it to nz.
C8_Witness ==
    \E y \in DOMAIN task :
        /\ task[y].pc = "write"
        /\ task[y].z = voxels.size[3] - 1
        /\ RoundIndex(task[y].inter[task[y].k + 1], voxels.origin[3], voxels.spacing)
              > voxels.size[3]

---------------------------------------------------------------------------
(* triangle_mesh_dump.                                                     *)

\* The offsets of corners[0] .. corners[7] from the voxel.
CornerOffset ==
    [c \in 0 .. 7 |->
        CASE c = 0 -> <<0, 0, 0>> [] c = 1 -> <<1, 0, 0>>
          [] c = 2 -> <<1, 1, 0>> [] c = 3 -> <<0, 1, 0>>
          [] c = 4 -> <<0, 0, 1>> [] c = 5 -> <<1, 0, 1>>
          [] c = 6 -> <<1, 1, 1>> [] c = 7 -> <<0, 1, 1>>]

Add3(p, q) == <<p[1] + q[1], p[2] + q[2], p[3] + q[3]>>

NodeSize(g) == Add3(g.size, <<1, 1, 1>>)

Corners(g, pos) ==
    [c \in 0 .. 7 |-> index_from_index3(Add3(pos, CornerOffset[c]), NodeSize(g))]

\* A check_facet that emits the quad whatever the neighbour holds.
check_facet_always(g, pos, axis, delta, v1, v2, v3, v4) ==
    LET corners == Corners(g, pos)
    IN  << corners[v1], corners[v2], corners[v3], corners[v3], corners[v2], corners[v4] >>

\* The lambda check_facet: the entries it appends to triangles.  axis counts
\* from 0 as in the source.
check_facet(g, pos, axis, delta, v1, v2, v3, v4) ==
    LET corners == Corners(g, pos)
        neigh == [pos EXCEPT ![axis + 1] = @ + delta]
        neigh_is_empty ==
            IF neigh[axis + 1] < 0 \/ neigh[axis + 1] >= g.size[axis + 1]
            THEN TRUE
            ELSE g.data[index_from_index3(neigh, g.size)] = 0
    IN  IF neigh_is_empty
        THEN << corners[v1], corners[v2], corners[v3],
                corners[v3], corners[v2], corners[v4] >>
        ELSE <<>>

\* The six calls: left, right, front, back, lower, upper.
FacetCalls ==
    << <<0, -1, 0, 4, 3, 7>>,
       <<0, 1, 2, 6, 1, 5>>,
       <<1, -1, 1, 5, 0, 4>>,
       <<1, 1, 3, 7, 2, 6>>,
       <<2, -1, 0, 1, 3, 2>>,
       <<2, 1, 4, 5, 7, 6>> >>

CallFacet(g, pos, n) ==
    check_facet(g, pos, FacetCalls[n][1], FacetCalls[n][2], FacetCalls[n][3],
                FacetCalls[n][4], FacetCalls[n][5], FacetCalls[n][6])

\* One iteration of the loop over the voxels: what it appends to triangles
\* and, for each quad, the voxel and the direction that emitted it.
RECURSIVE VoxelFacets(_, _, _)
VoxelFacets(g, idx, n) ==
    IF n > Len(FacetCalls) THEN [triangles |-> <<>>, quads |-> <<>>]
    ELSE LET t == CallFacet(g, index3_from_index(idx, g.size), n)
             rest == VoxelFacets(g, idx, n + 1)
         IN  IF t = <<>> THEN rest
             ELSE [triangles |-> t \o rest.triangles,
                   quads |-> << [idx |-> idx, axis |-> FacetCalls[n][1],
                                 delta |-> FacetCalls[n][2]] >> \o rest.quads]

\* An assignment that forgets to look whether the corner has an id.
AssignId_always(node_id, c, num_vertices) ==
    [node_id |-> [node_id EXCEPT ![c] = num_vertices], num_vertices |-> num_vertices + 1]

\* if (node_id[c] == -1) { node_id[c] = num_vertices++; }
AssignId(node_id, c, num_vertices) ==
    IF node_id[c] = -1
    THEN [node_id |-> [node_id EXCEPT ![c] = num_vertices],
          num_vertices |-> num_vertices + 1]
    ELSE [node_id |-> node_id, num_vertices |-> num_vertices]

\* The loop that assigns the vertex ids and remaps the triangle list, from
\* entry j on.
RECURSIVE RemapLoop(_, _, _, _)
RemapLoop(triangles, j, node_id, num_vertices) ==
    IF j > Len(triangles)
    THEN [triangles |-> triangles, node_id |-> node_id, num_vertices |-> num_vertices]
    ELSE LET a == AssignId(node_id, triangles[j], num_vertices)
         IN  RemapLoop([triangles EXCEPT ![j] = a.node_id[triangles[j]]], j + 1,
                       a.node_id, a.num_vertices)

Sub3(p, q) == <<p[1] - q[1], p[2] - q[2], p[3] - q[3]>>

\* The vertices of the mesh: the lattice coordinates of the used corners,
\* then moved to the min corner; scaling is the largest extent, by which
\* the source divides them.
MeshPoints(g, node_id, num_vertices) ==
    LET used == { v \in DOMAIN node_id : node_id[v] # -1 }
        point == [n \in 0 .. num_vertices - 1 |->
                     index3_from_index(CHOOSE v \in used : node_id[v] = n, NodeSize(g))]
        P == { point[n] : n \in DOMAIN point }
        min_corner == << SetMin({q[1] : q \in P}), SetMin({q[2] : q \in P}),
                         SetMin({q[3] : q \in P}) >>
        max_corner == << SetMax({q[1] : q \in P}), SetMax({q[2] : q \in P}),
                         SetMax({q[3] : q \in P}) >>
        extent == Sub3(max_corner, min_corner)
    IN  IF num_vertices = 0 THEN [point |-> point, scaling |-> 0]
        ELSE [point |-> [n \in DOMAIN point |-> Sub3(point[n], min_corner)],
              scaling |-> Max(extent[1], Max(extent[2], extent[3]))]

\* The loop over the voxels, one iteration.
DumpVoxel ==
    /\ dump.pc = "emit"
    /\ dump.idx < NumCells(voxels.size)
    /\ LET e == IF voxels.data[dump.idx] = 0
                THEN [triangles |-> <<>>, quads |-> <<>>]
                ELSE VoxelFacets(voxels, dump.idx, 1)
       IN  dump' = [dump EXCEPT !.idx = dump.idx + 1,
                                !.triangles = dump.triangles \o e.triangles,
                                !.quads = dump.quads \o e.quads]
    /\ UNCHANGED <<lay, pit, tile, sweepVars>>

\* The vertex ids are assigned and the triangle list remapped; raw keeps the
\* list of corners as it was.
DumpRemap ==
    /\ dump.pc = "emit"
    /\ dump.idx >= NumCells(voxels.size)
    /\ LET r == RemapLoop(dump.triangles, 1,
                          [v \in 0 .. NumCells(NodeSize(voxels)) - 1 |-> -1], 0)
       IN  dump' = [dump EXCEPT !.pc = "remapped", !.raw = dump.triangles,
                                !.triangles = r.triangles, !.node_id = r.node_id,
                                !.num_vertices = r.num_vertices]
    /\ UNCHANGED <<lay, pit, tile, sweepVars>>

\* The mesh is created and rescaled.
DumpMesh ==
    /\ dump.pc = "remapped"
    /\ LET m == MeshPoints(voxels, dump.node_id, dump.num_vertices)
       IN  dump' = [dump EXCEPT !.pc = "done", !.point = m.point, !.scaling = m.scaling]
    /\ UNCHANGED <<lay, pit, tile, sweepVars>>

NextDump == DumpVoxel \/ DumpRemap \/ DumpMesh

---------------------------------------------------------------------------
(* SpecDump: triangle_mesh_dump on every occupancy of every grid of up to  *)
(* MaxCells voxels, and on a solid 2 x 2 x 2 block with or without a layer *)
(* of empty voxels on each of its sides.                                    *)

SmallSizes ==
    { sz \in (1 .. MaxCells) \X (1 .. MaxCells) \X (1 .. MaxCells) :
         NumCells(sz) <= MaxCells }

\* The grid of size 2 + lo + hi along each axis holding the block at lo.
BlockGrid(lo, hi) ==
    LET size == << 2 + lo[1] + hi[1], 2 + lo[2] + hi[2], 2 + lo[3] + hi[3] >>
    IN  [origin |-> <<0, 0, 0>>, spacing |-> 2, size |-> size,
         data |-> [i \in 0 .. NumCells(size) - 1 |->
                      LET vx == index3_from_index(i, size)
                      IN  IF \A c \in 1 .. 3 : lo[c] <= vx[c] /\ vx[c] < lo[c] + 2
                          THEN 1 ELSE 0]]

Pads == (0 .. 1) \X (0 .. 1) \X (0 .. 1)

DumpStart == [pc |-> "emit", idx |-> 0, triangles |-> <<>>, quads |-> <<>>, raw |-> <<>>,
              node_id |-> <<>>, num_vertices |-> 0, point |-> <<>>, scaling |-> 0]

InitDump ==
    /\ \/ \E sz \in SmallSizes :
             \E data \in [0 .. NumCells(sz) - 1 -> {0, 1}] :
                voxels = [origin |-> <<0, 0, 0>>, spacing |-> 2, size |-> sz, data |-> data]
       \/ \E lo \in Pads, hi \in Pads : voxels = BlockGrid(lo, hi)
    /\ dump = DumpStart
    /\ args = NoArgs /\ mesh = <<>> /\ task = <<>> /\ access = <<>>
    /\ assert_failed = FALSE
    /\ OffLayout /\ OffPIT /\ OffTile

SpecDump == InitDump /\ [][NextDump]_vars

\* The occupied voxels, and whether they are exactly a 2 x 2 x 2 block.
Solid == { vx \in Index3s(voxels.size) : voxels.data[index_from_index3(vx, voxels.size)] # 0 }

SolidIsBlock ==
    /\ Cardinality(Solid) = 8
    /\ \E lo \in Solid :
          Solid = { vx \in Index3s(voxels.size) :
                       \A c \in 1 .. 3 : lo[c] <= vx[c] /\ vx[c] < lo[c] + 2 }

\* The voxel a quad was emitted towards: out of range, or empty.
QuadFacesEmpty(q) ==
    LET pos == index3_from_index(q.idx, voxels.size)
        neigh == [pos EXCEPT ![q.axis + 1] = @ + q.delta]
    IN  /\ voxels.data[q.idx] # 0
        /\ \/ neigh \notin Index3s(voxels.size)
           \/ voxels.data[index_from_index3(neigh, voxels.size)] = 0

Directions == {0, 1, 2} \X {-1, 1}

\* C4 as stated: a solid 2 x 2 x 2 block yields exactly 12 triangles, no face
\* between two occupied voxels, and 26 vertices.
C4_TwelveTriangles ==
    (dump.pc = "done" /\ SolidIsBlock) =>
       /\ Len(dump.triangles) = 3 * 12
       /\ \A q \in 1 .. Len(dump.quads) : QuadFacesEmpty(dump.quads[q])
       /\ dump.num_vertices = 26

\* C4, amended: a solid 2 x 2 x 2 block yields one unit quad per exposed
\* voxel face, 4 on each of its 6 outward sides, as 48 triangles; no face
\* lies between two occupied voxels; the mesh has 26 vertices.
C4_BlockBoundary ==
    (dump.pc = "done" /\ SolidIsBlock) =>
       /\ Len(dump.triangles) = 3 * 48
       /\ Len(dump.quads) = 24
       /\ \A d \in Directions :
             Cardinality({ q \in 1 .. Len(dump.quads) :
                              dump.quads[q].axis = d[1] /\ dump.quads[q].delta = d[2] }) = 4
       /\ \A q \in 1 .. Len(dump.quads) : QuadFacesEmpty(dump.quads[q])
       /\ dump.num_vertices = 26

\* The block with a layer of empty voxels on every side went through the
\* extraction.
C4_Witness ==
    /\ dump.pc = "done"
    /\ voxels.size = <<4, 4, 4>>
    /\ SolidIsBlock

Cross(u, v) ==
    << u[2] * v[3] - u[3] * v[2], u[3] * v[1] - u[1] * v[3], u[1] * v[2] - u[2] * v[1] >>

\* The right-hand-rule normal (p2 - p1) x (p3 - p1) of the triangle whose
\* corners are the entries i, i+1, i+2 of the list.
TriNormal(triangles, i) ==
    LET p1 == index3_from_index(triangles[i], NodeSize(voxels))
        p2 == index3_from_index(triangles[i + 1], NodeSize(voxels))
        p3 == index3_from_index(triangles[i + 2], NodeSize(voxels))
    IN  Cross(Sub3(p2, p1), Sub3(p3, p1))

\* The normal points in direction delta along axis, and nowhere else.
PointsAlong(n, axis, delta) ==
    \A c \in 1 .. 3 : IF c = axis + 1 THEN n[c] * delta > 0 ELSE n[c] = 0

QuadOutward(q) ==
    /\ PointsAlong(TriNormal(dump.triangles, 6 * q - 5), dump.quads[q].axis,
                   dump.quads[q].delta)
    /\ PointsAlong(TriNormal(dump.triangles, 6 * q - 2), dump.quads[q].axis,
                   dump.quads[q].delta)

\* C5: every emitted triangle is oriented outward: both triangles of the quad
\* emitted for (axis, delta) have a right-hand-rule normal pointing in
\* direction delta along that axis, away from the occupied voxel.
C5_OutwardOriented ==
    dump.pc = "emit" => \A q \in 1 .. Len(dump.quads) : QuadOutward(q)

\* What the source does keep: the quads of the five directions other than
\* the lower one are outward, and those of the lower one point into the voxel.
C5_OutwardButLower ==
    dump.pc = "emit" =>
       \A q \in 1 .. Len(dump.quads) :
          IF dump.quads[q].axis = 2 /\ dump.quads[q].delta = -1
          THEN /\ PointsAlong(TriNormal(dump.triangles, 6 * q - 5), 2, 1)
               /\ PointsAlong(TriNormal(dump.triangles, 6 * q - 2), 2, 1)
          ELSE QuadOutward(q)

\* The corners in their order of first occurrence carry the ids 0, 1, 2, ..
RECURSIVE FirstOccurrenceOrder(_, _, _, _)
FirstOccurrenceOrder(raw, j, seen, next) ==
    IF j > Len(raw) THEN next = dump.num_vertices
    ELSE IF raw[j] \in seen THEN FirstOccurrenceOrder(raw, j + 1, seen, next)
    ELSE /\ dump.node_id[raw[j]] = next
         /\ FirstOccurrenceOrder(raw, j + 1, seen \cup {raw[j]}, next + 1)

\* C10: after the remap pass every referenced corner has exactly one id, the
\* unreferenced ones keep -1, the ids are 0 .. num_vertices - 1 in order of
\* first occurrence, distinct corners have distinct ids, every entry of the
\* list is the id of the corner it referenced, and num_vertices counts the
\* referenced corners (none, with no triangle, for an empty grid).
C10_CornerIds ==
    dump.pc \in {"remapped", "done"} =>
       LET referenced == { dump.raw[j] : j \in 1 .. Len(dump.raw) }
       IN  /\ DOMAIN dump.node_id = 0 .. NumCells(NodeSize(voxels)) - 1
           /\ \A c \in DOMAIN dump.node_id :
                 IF c \in referenced
                 THEN dump.node_id[c] \in 0 .. dump.num_vertices - 1
                 ELSE dump.node_id[c] = -1
           /\ \A c1, c2 \in referenced :
                 dump.node_id[c1] = dump.node_id[c2] => c1 = c2
           /\ FirstOccurrenceOrder(dump.raw, 1, {}, 0)
           /\ Len(dump.triangles) = Len(dump.raw)
           /\ \A j \in 1 .. Len(dump.raw) : dump.triangles[j] = dump.node_id[dump.raw[j]]
           /\ dump.num_vertices = Cardinality(referenced)
           /\ (\A i \in DOMAIN voxels.data : voxels.data[i] = 0) =>
                 dump.num_vertices = 0 /\ dump.triangles = <<>>

\* Two occupied voxels side by side: corners shared by several triangles, and
\* corners of the lattice no triangle refers to.
C10_Witness ==
    /\ dump.pc = "remapped"
    /\ Cardinality({ i \in DOMAIN voxels.data : voxels.data[i] = 1 }) = 2
    /\ Len(dump.quads) = 10
    /\ \E c \in DOMAIN dump.node_id : dump.node_id[c] = -1

=============================================================================
